---- MODULE Spec2Model ----
(***************************************************************************)
(* Habit-notification scheduler of LiveTrack.                              *)
(*                                                                         *)
(*   HabitRepository.create / update / delete  (queries/habit_queries.py)  *)
(*   send_habit_notification                   (core/worker.py)            *)
(*   send_message                              (services/telegram_sender)  *)
(*   lifespan, init_arq_redis, close_arq_redis (main.py, core/arq_redis.py)*)
(*                                                                         *)
(* The Habit row is modelled with the fields the repository and the worker *)
(* read and write: user_id, is_active, timer_to_notify_in_seconds, job_id. *)
(* The ARQ queue, the database and the Telegram API are collaborators:     *)
(* each call on them either succeeds or raises, chosen nondeterministically.*)
(* Time is abstracted: a queued job may fire at any moment; the deferral   *)
(* asked for is kept in the record of the enqueue call.                    *)
(***************************************************************************)
EXTENDS Integers, Sequences, FiniteSets, TLC

\* ---------------------------------------------------------------- constants
MAX_TRIES == 3
RETRY_DELAY_SECONDS == 15

\* ------------------------------------------------------------------- bounds
\* habit ids in use at a time
MaxHabits == 1
\* jobs queued or executing at a time, next to the one that is firing
MaxJobs == 2
\* job ids live or still referenced at a time
MaxJobIds == 3
\* repository calls in progress at a time
MaxClients == 1
\* habit ids in use at a time where the habits' independence is examined
FrameHabits == 2

HabitIds == 1..MaxHabits
FrameHabitIds == 1..FrameHabits
JobIds == 1..MaxJobIds
Clients == 1..MaxClients

\* job_id = None
NoJob == 0

\* Two registered users: user 1 has linked a Telegram chat, user 2 has not.
Users == {1, 2}
telegram_chat_id == [u \in Users |-> IF u = 1 THEN 1001 ELSE 0]

\* timer_in_minutes values a client submits on create
Minutes == {1, 2}
\* timer_to_notify_in_seconds values a client submits on update
Seconds == {60, 120}

\* outcomes of a call on the queue or on the database
Outcomes == {"ok", "raise"}
\* outcomes of flush/commit in create: IntegrityError is told apart
DbOutcomes == {"ok", "IntegrityError", "raise"}
\* outcomes of bot.send_message
BotOutcomes == {"ok", "TelegramAPIError", "Exception"}

VARIABLES
    habits,       \* committed rows of table habits: habit id -> row
    queue,        \* jobs waiting in the ARQ queue
    running,      \* job id -> invocation of send_habit_notification awaiting its write
    api,          \* client -> repository call in progress
    exhausted,    \* habits whose latest cycle gave up after MAX_TRIES attempts
    last,         \* the call the latest step completed: its result and its queue calls
    arq_redis,    \* the web process's global queue handle: None | pool | closed
    app           \* the web process's lifespan: startup | serving | stopped | failed

vars == <<habits, queue, running, api, exhausted, last, arq_redis, app>>

\* the state of the web process, which the worker process does not share
web == <<arq_redis, app>>

Idle == [pc |-> "idle"]
Step == [op |-> "step"]

\* ------------------------------------------------------------------ helpers
Stored(h) == h \in DOMAIN habits

Min(S) == CHOOSE x \in S : \A y \in S : x <= y

\* a job in the queue: enqueue_job('send_habit_notification', habit_id, [job_try=...])
\* delivered_before: messages delivered by the earlier attempts of the job's cycle
Job(id, habit_id, job_try, delivered_before) ==
    [id |-> id, habit_id |-> habit_id, job_try |-> job_try,
     delivered_before |-> delivered_before]

\* the queue calls an operation makes, as a test double would record them
EnqueueCall(id, habit_id, defer, job_try) ==
    [call |-> "enqueue", id |-> id, habit_id |-> habit_id, defer |-> defer,
     job_try |-> job_try]
CancelCall(id, outcome) == [call |-> "cancel", id |-> id, outcome |-> outcome]

\* jobs that are queued or currently executing
LiveJobs == queue \cup {running[j].job : j \in DOMAIN running}
LiveJobsOf(h) == {j \in LiveJobs : j.habit_id = h}

\* Job ids are uuids and habit ids come from a sequence: a new id differs from
\* every id still referenced anywhere.
UsedJobIds ==
    {j.id : j \in queue} \cup DOMAIN running
    \cup {running[j].calls[1].id : j \in DOMAIN running}
    \cup {habits[h].job_id : h \in DOMAIN habits}
    \cup {api[c].job_id_before : c \in {d \in Clients : api[d].pc # "idle"}}
    \cup {api[c].row.job_id : c \in {d \in Clients : api[d].pc = "commit"}}
FreeJobIds == JobIds \ UsedJobIds
FreshJobId == Min(FreeJobIds)

\* the queue takes another job (finishing: the jobs that end with this step)
Room(finishing) ==
    /\ Cardinality(LiveJobs \ finishing) < MaxJobs
    /\ FreeJobIds # {}

UsedHabitIds ==
    DOMAIN habits \cup {j.habit_id : j \in LiveJobs}
    \cup {api[c].habit_id : c \in {d \in Clients : api[d].pc # "idle"}}
\* ids: the habit ids the clients and the database work with
FreeHabitIds(ids) == ids \ UsedHabitIds
FreshHabitId(ids) == Min(FreeHabitIds(ids))

\* arq abort of job id: a job still waiting in the queue is removed
abort_jobMutant(id) == {}
abort_job(id) == {j \in queue : j.id # id}

\* HabitCreate.convert_minutes_to_seconds
convert_minutes_to_seconds(timer_in_minutes) == timer_in_minutes * 60

\* select_by_id(db, user_id, habit_id): scoped to the owner
select_by_idMutant(user_id, habit_id) == Stored(habit_id)
select_by_id(user_id, habit_id) ==
    Stored(habit_id) /\ habits[habit_id].user_id = user_id

\* the row is locked by an UPDATE statement whose transaction is not committed
LockedMutant(h) == FALSE
Locked(h) ==
    \E c \in Clients : api[c].pc = "commit" /\ api[c].op = "update" /\ api[c].habit_id = h

AddRow(h, row) == [i \in DOMAIN habits \cup {h} |-> IF i = h THEN row ELSE habits[i]]
DelRow(h) == [i \in DOMAIN habits \ {h} |-> habits[i]]

\* get_arq_redis(): the dependency of the routers returns the global as it is
get_arq_redis == arq_redis

\* init_arq_redis(): `global arq_redis; arq_redis = await create_pool(...)`
init_arq_redisMutant(handle) == handle
init_arq_redis(handle) == "pool"

\* close_arq_redis(): `await arq_redis.close()`; the global keeps the closed pool
close_arq_redis(handle) == IF handle = "pool" THEN "closed" ELSE handle

\* a handle that takes enqueue_job and abort_job
Usable(arq_pool) == arq_pool = "pool"

\* the web process is up and serving and nothing is stored yet
Init ==
    /\ habits = <<>>
    /\ queue = {}
    /\ running = <<>>
    /\ api = [c \in Clients |-> Idle]
    /\ exhausted = {}
    /\ last = [op |-> "none"]
    /\ arq_redis = "pool"
    /\ app = "serving"

\* the web process as it is launched: module arq_redis imported, lifespan not entered
LifespanInit ==
    /\ habits = <<>>
    /\ queue = {}
    /\ running = <<>>
    /\ api = [c \in Clients |-> Idle]
    /\ exhausted = {}
    /\ last = [op |-> "none"]
    /\ arq_redis = "None"
    /\ app = "startup"

\* ------------------------------------------------- HabitRepository.create
\* `if db_habit.is_active:` -- only an active habit gets its first job
CreateSchedulesMutant(is_active) == TRUE
CreateSchedules(is_active) == is_active

\* an exception raised inside the try block leaves create before the commit
CreateAbortsMutant(exc) == exc = "IntegrityError"
CreateAborts(exc) == exc # "ok"

\* `except IntegrityError: rollback; return None`; anything else propagates
CreateResult(exc) == IF exc = "IntegrityError" THEN "None" ELSE "raised"

\* failed: the call that raised (no | flush | enqueue | commit)
CreateDone(h, row, calls, failed, result) ==
    [op |-> "create", habit_id |-> h, row |-> row, calls |-> calls,
     failed |-> failed, result |-> result]

\* the create call as it waits for its commit;
\* failed: the call that raised and was survived (no | enqueue)
CreatePending(h, row, calls, failed) ==
    [pc |-> "commit", op |-> "create", habit_id |-> h, job_id_before |-> NoJob,
     row |-> row, calls |-> calls, failed |-> failed]

\* Habit(**habit_data, user_id=user_id); add; flush; [enqueue_job; job_id]
Create_Call(c, ids) ==
    /\ app = "serving"
    /\ api[c] = Idle
    /\ FreeHabitIds(ids) # {}
    /\ \E user_id \in Users, is_active \in BOOLEAN, timer_in_minutes \in Minutes,
          flush \in {"ok", "IntegrityError"}, enq \in Outcomes :
        LET h == FreshHabitId(ids)
            sched == CreateSchedules(is_active)
            row == [user_id |-> user_id, is_active |-> is_active,
                    timer_to_notify_in_seconds |->
                        convert_minutes_to_seconds(timer_in_minutes),
                    job_id |-> NoJob]
        IN
        /\ (sched /\ flush = "ok") \/ enq = "ok"
        /\ IF CreateAborts(flush)
           THEN \* IntegrityError at flush: rollback, return None
                /\ last' = CreateDone(h, row, <<>>, "flush", CreateResult(flush))
                /\ UNCHANGED <<api, queue, exhausted>>
           ELSE IF ~sched
           THEN /\ api' = [api EXCEPT ![c] = CreatePending(h, row, <<>>, "no")]
                /\ exhausted' = exhausted \ {h}
                /\ last' = Step
                /\ UNCHANGED queue
           ELSE IF enq = "ok"
           THEN /\ Usable(get_arq_redis)
                /\ Room({})
                /\ queue' = queue \cup {Job(FreshJobId, h, 1, 0)}
                /\ api' = [api EXCEPT ![c] =
                       CreatePending(h, [row EXCEPT !.job_id = FreshJobId],
                           <<EnqueueCall(FreshJobId, h,
                                 row.timer_to_notify_in_seconds, 1)>>, "no")]
                /\ exhausted' = exhausted \ {h}
                /\ last' = Step
           ELSE IF CreateAborts(enq)
           THEN \* enqueue_job raised: the exception leaves create, nothing is committed
                /\ last' = CreateDone(h, row, <<>>, "enqueue", CreateResult(enq))
                /\ UNCHANGED <<api, queue, exhausted>>
           ELSE /\ api' = [api EXCEPT ![c] = CreatePending(h, row, <<>>, "enqueue")]
                /\ exhausted' = exhausted \ {h}
                /\ last' = Step
                /\ UNCHANGED queue
    /\ UNCHANGED <<habits, running>>
    /\ UNCHANGED web

\* await db.commit(); await db.refresh(db_habit); return db_habit
Create_Commit(c) ==
    /\ api[c].pc = "commit" /\ api[c].op = "create"
    /\ \E commit \in DbOutcomes :
        LET a == api[c] IN
        IF CreateAborts(commit)
        THEN /\ habits' = habits
             /\ last' = CreateDone(a.habit_id, a.row, a.calls, "commit",
                                   CreateResult(commit))
        ELSE /\ habits' = AddRow(a.habit_id, a.row)
             /\ last' = CreateDone(a.habit_id, a.row, a.calls, a.failed, "habit")
    /\ api' = [api EXCEPT ![c] = Idle]
    /\ UNCHANGED <<queue, running, exhausted>>
    /\ UNCHANGED web

\* ------------------------------------------------- HabitRepository.update
\* data_to_update.model_dump(exclude_unset=True): the fields the client set.
\* name is not read by the scheduler and is not kept in the modelled row.
UpdateData ==
    { a @@ t :
        a \in {<<>>} \cup {("is_active" :> b) : b \in BOOLEAN},
        t \in {<<>>} \cup {("timer_to_notify_in_seconds" :> s) : s \in Seconds} }
    \cup {("name" :> "n")}

Has(data, f) == f \in DOMAIN data

\* update(Habit).filter(id, user_id).values(**data).returning(Habit)
ApplyData(row, data) ==
    [row EXCEPT
        !.is_active = IF Has(data, "is_active") THEN data["is_active"] ELSE @,
        !.timer_to_notify_in_seconds =
            IF Has(data, "timer_to_notify_in_seconds")
            THEN data["timer_to_notify_in_seconds"] ELSE @]

\* `if not was_active_before and habit_after_update.is_active`
IsReactivationMutant(was_active_before, habit_after_update) ==
    habit_after_update.is_active
IsReactivation(was_active_before, habit_after_update) ==
    ~was_active_before /\ habit_after_update.is_active

\* `elif was_active_before and not habit_after_update.is_active and job_id_before`
IsDeactivation(was_active_before, habit_after_update, job_id_before) ==
    was_active_before /\ ~habit_after_update.is_active /\ job_id_before # NoJob

\* _defer_by=timedelta(seconds=habit_after_update.timer_to_notify_in_seconds)
ReactivationDeferMutant(habit_before_update, habit_after_update) ==
    habit_before_update.timer_to_notify_in_seconds
ReactivationDefer(habit_before_update, habit_after_update) ==
    habit_after_update.timer_to_notify_in_seconds

\* `except Exception as e: print(...)` -- an exception of abort_job is not
\* re-raised, it never ends the update
CancelAbortsMutant(cancel) == cancel # "ok"
CancelAborts(cancel) == FALSE

\* try: abort_job(job_id_before); habit_after_update.job_id = None
\* except Exception: print(...)           -- the assignment is skipped
JobIdAfterCancel(cancel, job_id) ==
    IF cancel = "ok" THEN NoJob ELSE job_id

\* an update that ended without touching a row: kind is empty | not_found
UpdateNoRow(user_id, h, kind, result) ==
    [op |-> "update", user_id |-> user_id, habit_id |-> h, kind |-> kind,
     calls |-> <<>>, failed |-> "no", result |-> result]

\* an update that reached its queue call or its commit;
\* kind: reactivation | deactivation | plain;  row: the row as it is stored now
UpdateDone(a, kind, row, calls, failed, result) ==
    [op |-> "update", habit_id |-> a.habit_id, kind |-> kind, data |-> a.data,
     habit_before_update |-> a.habit_before_update, row |-> row,
     calls |-> calls, failed |-> failed, result |-> result]

\* model_dump; `if not data: return select_by_id`; select_by_id;
\* `if not habit_before_update: return None`; was_active_before; job_id_before
Update_Call(c, ids) ==
    /\ app = "serving"
    /\ api[c] = Idle
    /\ \E user_id \in Users, h \in ids, data \in UpdateData :
        IF DOMAIN data = {}
        THEN /\ api' = api
             /\ last' = UpdateNoRow(user_id, h, "empty",
                            IF select_by_id(user_id, h) THEN "habit" ELSE "None")
        ELSE IF ~select_by_id(user_id, h)
        THEN /\ api' = api
             /\ last' = UpdateNoRow(user_id, h, "not_found", "None")
        ELSE /\ api' = [api EXCEPT ![c] =
                    [pc |-> "execute", op |-> "update", habit_id |-> h, user_id |-> user_id,
                     data |-> data, habit_before_update |-> habits[h],
                     was_active_before |-> habits[h].is_active,
                     job_id_before |-> habits[h].job_id]]
             /\ last' = Step
    /\ UNCHANGED <<habits, queue, running, exhausted>>
    /\ UNCHANGED web

\* db.execute(query); habit_after_update; reconcile the job with the flag change
Update_Execute(c) ==
    /\ api[c].pc = "execute" /\ api[c].op = "update"
    /\ LET a == api[c]
           h == a.habit_id
       IN
       IF ~select_by_id(a.user_id, h)
       THEN \* the row was deleted meanwhile: habit_after_update is None
            /\ api' = [api EXCEPT ![c] = Idle]
            /\ last' = UpdateNoRow(a.user_id, h, "not_found", "None")
            /\ UNCHANGED <<queue, exhausted>>
       ELSE
       /\ ~Locked(h)
       /\ LET habit_after_update == ApplyData(habits[h], a.data) IN
          IF IsReactivation(a.was_active_before, habit_after_update)
          THEN \E enq \in Outcomes :
                IF enq = "ok"
                THEN /\ Usable(get_arq_redis)
                     /\ Room({})
                     /\ queue' = queue \cup {Job(FreshJobId, h, 1, 0)}
                     /\ api' = [api EXCEPT ![c] =
                            [pc |-> "commit", kind |-> "reactivation",
                             row |-> [habit_after_update EXCEPT !.job_id = FreshJobId],
                             calls |-> <<EnqueueCall(FreshJobId, h,
                                           ReactivationDefer(a.habit_before_update,
                                                             habit_after_update), 1)>>]
                            @@ a]
                     /\ exhausted' = exhausted \ {h}
                     /\ last' = Step
                ELSE \* enqueue_job raised: update raises, the UPDATE is rolled back
                     /\ api' = [api EXCEPT ![c] = Idle]
                     /\ last' = UpdateDone(a, "reactivation", habits[h], <<>>,
                                           "enqueue", "raised")
                     /\ UNCHANGED <<queue, exhausted>>
          ELSE IF IsDeactivation(a.was_active_before, habit_after_update, a.job_id_before)
          THEN \E cancel \in Outcomes :
                /\ cancel = "ok" => Usable(get_arq_redis)
                /\ queue' = IF cancel = "ok" THEN abort_job(a.job_id_before) ELSE queue
                /\ IF CancelAborts(cancel)
                   THEN /\ api' = [api EXCEPT ![c] = Idle]
                        /\ last' = UpdateDone(a, "deactivation", habits[h],
                                       <<CancelCall(a.job_id_before, cancel)>>,
                                       "cancel", "raised")
                   ELSE /\ api' = [api EXCEPT ![c] =
                               [pc |-> "commit", kind |-> "deactivation",
                                row |-> [habit_after_update EXCEPT
                                            !.job_id = JobIdAfterCancel(cancel, @)],
                                calls |-> <<CancelCall(a.job_id_before, cancel)>>]
                               @@ a]
                        /\ last' = Step
                /\ UNCHANGED exhausted
          ELSE /\ api' = [api EXCEPT ![c] =
                      [pc |-> "commit", kind |-> "plain", row |-> habit_after_update,
                       calls |-> <<>>] @@ a]
               /\ last' = Step
               /\ UNCHANGED <<queue, exhausted>>
    /\ UNCHANGED <<habits, running>>
    /\ UNCHANGED web

\* await db.commit(); return habit_after_update
Update_Commit(c) ==
    /\ api[c].pc = "commit" /\ api[c].op = "update"
    /\ \E commit \in Outcomes :
        LET a == api[c] IN
        IF commit = "ok"
        THEN /\ habits' = [habits EXCEPT ![a.habit_id] = a.row]
             /\ last' = UpdateDone(a, a.kind, a.row, a.calls, "no", "habit")
        ELSE /\ habits' = habits
             /\ last' = UpdateDone(a, a.kind, habits[a.habit_id], a.calls,
                                   "commit", "raised")
    /\ api' = [api EXCEPT ![c] = Idle]
    /\ UNCHANGED <<queue, running, exhausted>>
    /\ UNCHANGED web

\* ------------------------------------------------- HabitRepository.delete
\* `if habit_to_delete.job_id:` -- only a recorded job is cancelled
DeleteCancelsMutant(job_id) == FALSE
DeleteCancels(job_id) == job_id # NoJob

\* `except Exception as e: print(...)` around abort_job in delete: the
\* exception is logged and the delete goes on
DeleteCancelAbortsMutant(cancel) == cancel # "ok"
DeleteCancelAborts(cancel) == FALSE

DeleteDone(user_id, h, calls, failed, result) ==
    [op |-> "delete", user_id |-> user_id, habit_id |-> h, calls |-> calls,
     failed |-> failed, result |-> result]

\* select_by_id; `if not habit_to_delete: return False`;
\* `if habit_to_delete.job_id:` try abort_job except: print
Delete_Call(c, ids) ==
    /\ app = "serving"
    /\ api[c] = Idle
    /\ \E user_id \in Users, h \in ids :
        IF ~select_by_id(user_id, h)
        THEN /\ api' = api
             /\ queue' = queue
             /\ last' = DeleteDone(user_id, h, <<>>, "no", "False")
        ELSE IF DeleteCancels(habits[h].job_id)
        THEN \E cancel \in Outcomes :
             /\ cancel = "ok" => Usable(get_arq_redis)
             /\ queue' = IF cancel = "ok" THEN abort_job(habits[h].job_id) ELSE queue
             /\ IF DeleteCancelAborts(cancel)
                THEN /\ api' = api
                     /\ last' = DeleteDone(user_id, h,
                                    <<CancelCall(habits[h].job_id, cancel)>>,
                                    "cancel", "raised")
                ELSE /\ api' = [api EXCEPT ![c] =
                            [pc |-> "execute", op |-> "delete", habit_id |-> h,
                             user_id |-> user_id,
                             job_id_before |-> habits[h].job_id,
                             calls |-> <<CancelCall(habits[h].job_id, cancel)>>]]
                     /\ last' = Step
        ELSE /\ queue' = queue
             /\ api' = [api EXCEPT ![c] =
                    [pc |-> "execute", op |-> "delete", habit_id |-> h, user_id |-> user_id,
                     job_id_before |-> habits[h].job_id, calls |-> <<>>]]
             /\ last' = Step
    /\ UNCHANGED <<habits, running, exhausted>>
    /\ UNCHANGED web

\* delete(Habit).filter(id, user_id); commit; return result.rowcount > 0
Delete_Execute(c) ==
    /\ api[c].pc = "execute" /\ api[c].op = "delete"
    /\ ~Locked(api[c].habit_id)
    /\ \E commit \in Outcomes :
        LET a == api[c]
            hit == select_by_id(a.user_id, a.habit_id)
        IN
        IF commit = "ok"
        THEN /\ habits' = IF hit THEN DelRow(a.habit_id) ELSE habits
             /\ last' = DeleteDone(a.user_id, a.habit_id, a.calls, "no",
                                   IF hit THEN "True" ELSE "False")
        ELSE /\ habits' = habits
             /\ last' = DeleteDone(a.user_id, a.habit_id, a.calls, "commit", "raised")
    /\ api' = [api EXCEPT ![c] = Idle]
    /\ UNCHANGED <<queue, running, exhausted>>
    /\ UNCHANGED web

\* ------------------------------------------------- send_message
\* try: bot.send_message(...); return True
\* except TelegramAPIError: return False / except Exception: return False
send_message(outcome) == outcome = "ok"

\* ------------------------------------------------- send_habit_notification
\* `if not (habit and habit.is_active and habit.user and habit.user.telegram_chat_id)`
GuardPassesMutant(habit_id) ==
    /\ Stored(habit_id)
    /\ telegram_chat_id[habits[habit_id].user_id] # 0
GuardPasses(habit_id) ==
    /\ Stored(habit_id)
    /\ habits[habit_id].is_active
    /\ telegram_chat_id[habits[habit_id].user_id] # 0

\* next job of the cycle: enqueue_job(name, habit.id, _defer_by=timer) -- no
\* job_try argument, so the next firing runs with the default job_try = 1
NextJobTryMutant(job_try) == job_try
NextJobTry(job_try) == 1

\* `if job_try < MAX_TRIES:` in the except branch
RetriesMutant(job_try) == job_try <= MAX_TRIES
Retries(job_try) == job_try < MAX_TRIES

\* messages delivered in the cycle up to and including invocation r
Delivered(r) == r.job.delivered_before + (IF r.delivered = "True" THEN 1 ELSE 0)

\* path: stopped | rescheduled | retry | gave_up | raised
\* err: the call that raised (no | load | enqueue | write)
\* delivered: none (send_message not called) | True | False (its result)
HandlerDone(r, calls, path, err) ==
    [op |-> "handler", habit_id |-> r.job.habit_id, job_try |-> r.job.job_try,
     timer |-> r.timer, delivered |-> r.delivered, delivered_in_cycle |-> Delivered(r),
     calls |-> calls, path |-> path, err |-> err]

\* an invocation as it starts: nothing loaded, sent or enqueued yet
Invocation(job) ==
    [job |-> job, timer |-> 0, delivered |-> "none", calls |-> <<>>]

\* except Exception: retry with job_try + 1 after RETRY_DELAY_SECONDS while
\* job_try < MAX_TRIES, else give up.  q: the queue without the firing job.
OnException(r, q, err) ==
    IF Retries(r.job.job_try)
    THEN \E enq \in Outcomes :
          IF enq = "ok"
          THEN /\ Room({r.job})
               /\ queue' = q \cup {Job(FreshJobId, r.job.habit_id, r.job.job_try + 1,
                                       Delivered(r))}
               /\ exhausted' = exhausted \ {r.job.habit_id}
               /\ last' = HandlerDone(r,
                              r.calls \o <<EnqueueCall(FreshJobId, r.job.habit_id,
                                              RETRY_DELAY_SECONDS, r.job.job_try + 1)>>,
                              "retry", err)
          ELSE \* the retry's enqueue_job raised inside the except branch
               /\ queue' = q
               /\ last' = HandlerDone(r, r.calls, "raised", err)
               /\ UNCHANGED exhausted
    ELSE /\ queue' = q
         /\ exhausted' = exhausted \cup {r.job.habit_id}
         /\ last' = HandlerDone(r, r.calls, "gave_up", err)

\* The queue hands job j to the worker: select(Habit) with its user; guard;
\* await send_message(...) -- its result is not read --; enqueue_job(next)
Handler_Fire(j) ==
    /\ j \in queue
    /\ \E load \in Outcomes, outcome \in BotOutcomes, enq \in Outcomes :
        LET h == j.habit_id
            r0 == Invocation(j)
        IN
        IF load = "raise"
        THEN /\ outcome = "ok" /\ enq = "ok"
             /\ OnException(r0, queue \ {j}, "load")
             /\ UNCHANGED running
        ELSE IF ~GuardPasses(h)
        THEN /\ outcome = "ok" /\ enq = "ok"
             /\ queue' = queue \ {j}
             /\ last' = HandlerDone(r0, <<>>, "stopped", "no")
             /\ UNCHANGED <<running, exhausted>>
        ELSE LET r == [r0 EXCEPT
                          !.timer = habits[h].timer_to_notify_in_seconds,
                          !.delivered = IF send_message(outcome) THEN "True" ELSE "False"]
             IN
             IF enq = "ok"
             THEN /\ Room({j})
                  /\ queue' = (queue \ {j}) \cup {Job(FreshJobId, h, NextJobTry(j.job_try), 0)}
                  /\ running' = [i \in DOMAIN running \cup {j.id} |->
                                   IF i = j.id
                                   THEN [r EXCEPT !.calls =
                                           <<EnqueueCall(FreshJobId, h, r.timer,
                                                         NextJobTry(j.job_try))>>]
                                   ELSE running[i]]
                  /\ exhausted' = exhausted \ {h}
                  /\ last' = Step
             ELSE /\ OnException(r, queue \ {j}, "enqueue")
                  /\ UNCHANGED running
    /\ UNCHANGED <<habits, api>>
    /\ UNCHANGED web

\* update(Habit).where(Habit.id == habit_id).values(job_id=next_job.job_id); commit
Handler_Write(id) ==
    /\ id \in DOMAIN running
    /\ ~Locked(running[id].job.habit_id)
    /\ \E write \in Outcomes :
        LET r == running[id]
            h == r.job.habit_id
        IN
        IF write = "ok"
        THEN /\ habits' = IF Stored(h)
                          THEN [habits EXCEPT ![h].job_id = r.calls[1].id]
                          ELSE habits
             /\ last' = HandlerDone(r, r.calls, "rescheduled", "no")
             /\ UNCHANGED <<queue, exhausted>>
        ELSE /\ habits' = habits
             /\ OnException(r, queue, "write")
    /\ running' = [i \in DOMAIN running \ {id} |-> running[i]]
    /\ UNCHANGED api
    /\ UNCHANGED web

Next ==
    \/ \E c \in Clients : Create_Call(c, HabitIds)
    \/ \E c \in Clients : Create_Commit(c)
    \/ \E c \in Clients : Update_Call(c, HabitIds)
    \/ \E c \in Clients : Update_Execute(c)
    \/ \E c \in Clients : Update_Commit(c)
    \/ \E c \in Clients : Delete_Call(c, HabitIds)
    \/ \E c \in Clients : Delete_Execute(c)
    \/ \E j \in queue : Handler_Fire(j)
    \/ \E id \in JobIds : Handler_Write(id)

Spec == Init /\ [][Next]_vars

\* ------------------------------------------------- reliable collaborators
\* No call on the bot, the queue or the database has failed: nothing raised,
\* bot.send_message delivered, every cancel went through.
NoFailure ==
    /\ last.op = "handler" => (last.err = "no" /\ last.delivered # "False")
    /\ last.op \in {"create", "update", "delete"} => last.failed = "no"
    /\ last.op \notin {"none", "step"}
         => \A k \in 1..Len(last.calls) :
               last.calls[k].call = "cancel" => last.calls[k].outcome = "ok"
    /\ \A i \in DOMAIN running : running[i].delivered = "True"
    /\ \A c \in Clients :
         "calls" \in DOMAIN api[c]
         => \A k \in 1..Len(api[c].calls) :
               api[c].calls[k].call = "cancel" => api[c].calls[k].outcome = "ok"

ReliableNext ==
    \/ \E c \in Clients : Create_Call(c, HabitIds) /\ NoFailure'
    \/ \E c \in Clients : Create_Commit(c) /\ NoFailure'
    \/ \E c \in Clients : Update_Call(c, HabitIds) /\ NoFailure'
    \/ \E c \in Clients : Update_Execute(c) /\ NoFailure'
    \/ \E c \in Clients : Update_Commit(c) /\ NoFailure'
    \/ \E c \in Clients : Delete_Call(c, HabitIds) /\ NoFailure'
    \/ \E c \in Clients : Delete_Execute(c) /\ NoFailure'
    \/ \E j \in queue : Handler_Fire(j) /\ NoFailure'
    \/ \E id \in JobIds : Handler_Write(id) /\ NoFailure'

\* The ARQ worker runs every queued job and every repository call that has
\* started runs to its return: fairness holds for each job and for each call,
\* not only for some of them.  A statement that waits for a row lock gets the
\* lock once it is released, however often other transactions take it in
\* between, hence strong fairness for the steps that wait.
Fairness ==
    /\ \A id \in JobIds :
          SF_vars(\E j \in queue : j.id = id /\ Handler_Fire(j) /\ NoFailure')
    /\ \A id \in JobIds : SF_vars(Handler_Write(id) /\ NoFailure')
    /\ \A c \in Clients : WF_vars(Create_Commit(c) /\ NoFailure')
    /\ \A c \in Clients : SF_vars(Update_Execute(c) /\ NoFailure')
    /\ \A c \in Clients : WF_vars(Update_Commit(c) /\ NoFailure')
    /\ \A c \in Clients : SF_vars(Delete_Execute(c) /\ NoFailure')

ReliableSpec == Init /\ [][ReliableNext]_vars /\ Fairness

\* ------------------------------------------------- several habits
\* The same operations over FrameHabits habit ids, with collaborators that do
\* not fail: the habits' jobs share the one queue and the one worker.

\* the clients of these habits submit one timer value: timer_in_minutes = 1
\* on create, timer_to_notify_in_seconds = 60 on update
FrameInputs ==
    \A c \in Clients :
        /\ "row" \in DOMAIN api[c]
           => api[c].row.timer_to_notify_in_seconds = convert_minutes_to_seconds(1)
        /\ ("data" \in DOMAIN api[c] /\ Has(api[c].data, "timer_to_notify_in_seconds"))
           => api[c].data["timer_to_notify_in_seconds"] = 60

FrameNext ==
    \/ \E c \in Clients : Create_Call(c, FrameHabitIds) /\ NoFailure' /\ FrameInputs'
    \/ \E c \in Clients : Create_Commit(c) /\ NoFailure'
    \/ \E c \in Clients : Update_Call(c, FrameHabitIds) /\ NoFailure' /\ FrameInputs'
    \/ \E c \in Clients : Update_Execute(c) /\ NoFailure'
    \/ \E c \in Clients : Update_Commit(c) /\ NoFailure'
    \/ \E c \in Clients : Delete_Call(c, FrameHabitIds) /\ NoFailure'
    \/ \E c \in Clients : Delete_Execute(c) /\ NoFailure'
    \/ \E j \in queue : Handler_Fire(j) /\ NoFailure'
    \/ \E id \in JobIds : Handler_Write(id) /\ NoFailure'

FrameSpec == Init /\ [][FrameNext]_vars

\* ------------------------------------------------- lifespan of the web process
\* lifespan(app), up to the yield: await init_arq_redis().  When create_pool
\* raises, the startup fails and the process serves no request.
Lifespan_Startup ==
    /\ app = "startup"
    /\ \E create_pool \in Outcomes :
        IF create_pool = "ok"
        THEN /\ arq_redis' = init_arq_redis(arq_redis)
             /\ app' = "serving"
        ELSE /\ arq_redis' = arq_redis
             /\ app' = "failed"
    /\ UNCHANGED <<habits, queue, running, api, exhausted, last>>

\* lifespan(app), after the yield: await close_arq_redis().  The server resumes
\* the lifespan when it has stopped accepting requests and the requests it
\* accepted have returned.
Lifespan_Shutdown ==
    /\ app = "serving"
    /\ \A c \in Clients : api[c] = Idle
    /\ arq_redis' = close_arq_redis(arq_redis)
    /\ app' = "stopped"
    /\ UNCHANGED <<habits, queue, running, api, exhausted, last>>

\* The web process from its launch to its end, next to the worker process,
\* with collaborators that do not fail once the process serves.
LifespanNext ==
    \/ Lifespan_Startup
    \/ Lifespan_Shutdown
    \/ \E c \in Clients : Create_Call(c, HabitIds) /\ NoFailure'
    \/ \E c \in Clients : Create_Commit(c) /\ NoFailure'
    \/ \E c \in Clients : Update_Call(c, HabitIds) /\ NoFailure'
    \/ \E c \in Clients : Update_Execute(c) /\ NoFailure'
    \/ \E c \in Clients : Update_Commit(c) /\ NoFailure'
    \/ \E c \in Clients : Delete_Call(c, HabitIds) /\ NoFailure'
    \/ \E c \in Clients : Delete_Execute(c) /\ NoFailure'
    \/ \E j \in queue : Handler_Fire(j) /\ NoFailure'
    \/ \E id \in JobIds : Handler_Write(id) /\ NoFailure'

LifespanSpec == LifespanInit /\ [][LifespanNext]_vars

\* ------------------------------------------------------------------ claims
\* C1 (as stated): in every reachable state each stored habit has a non-empty
\* job_id if and only if its is_active is true.
C1_JobIdIffActive ==
    \A h \in DOMAIN habits : (habits[h].job_id # NoJob) <=> habits[h].is_active

\* C2 (as stated): every stored active habit has a live job carrying its id,
\* unless its current cycle gave up at attempt MAX_TRIES.  Stated here for the
\* states in which no repository call and no handler is in progress, which the
\* claim's "every reachable state" includes.
C2_ActiveHasLiveJob ==
    ((\A c \in Clients : api[c] = Idle) /\ running = <<>>)
    => \A h \in DOMAIN habits :
           habits[h].is_active => (LiveJobsOf(h) # {} \/ h \in exhausted)

\* C3: a firing whose load finds the habit missing, inactive or owned by a user
\* without telegram_chat_id sends nothing, enqueues nothing, writes nothing,
\* whatever its job_try, and ends without raising.
C3_GuardExitIsSilent ==
    [][\A j \in queue :
        LET h == j.habit_id
            fired == j \notin queue' /\ (last'.op = "handler" \/ j.id \in DOMAIN running')
            loaded == ~(last'.op = "handler" /\ last'.err = "load")
            ineligible == \/ ~Stored(h)
                          \/ ~habits[h].is_active
                          \/ telegram_chat_id[habits[h].user_id] = 0
        IN
        (fired /\ loaded /\ ineligible)
        => /\ last'.op = "handler"
           /\ last'.path = "stopped"
           /\ last'.job_try = j.job_try
           /\ last'.delivered = "none"
           /\ last'.calls = <<>>
           /\ queue' = queue \ {j}
           /\ habits' = habits
           /\ running' = running
           /\ exhausted' = exhausted]_vars

\* C3 witness: a retry job (job_try > 1) fired for a stored, deactivated habit
\* and left through the guard.
C3_Witness ==
    /\ last.op = "handler"
    /\ last.path = "stopped"
    /\ last.job_try > 1
    /\ Stored(last.habit_id)
    /\ ~habits[last.habit_id].is_active

\* C4 (as stated): a firing whose delivery failed enqueues one retry job with
\* defer RETRY_DELAY_SECONDS and job_try + 1 while job_try < MAX_TRIES, and
\* enqueues nothing at job_try = MAX_TRIES.
C4_FailedDeliveryRetries ==
    (last.op = "handler" /\ last.delivered = "False" /\ last.err = "no")
    => IF last.job_try < MAX_TRIES
       THEN /\ Len(last.calls) = 1
            /\ last.calls[1].call = "enqueue"
            /\ last.calls[1].defer = RETRY_DELAY_SECONDS
            /\ last.calls[1].job_try = last.job_try + 1
       ELSE last.calls = <<>>

\* C5: an update that sets is_active = true on a stored inactive habit with
\* empty job_id, and returns the habit, has enqueued exactly one job, deferred
\* by the timer the row has after the update, has cancelled none, and the
\* stored job_id is that job's id.
C5_Reactivation ==
    (/\ last.op = "update"
     /\ last.kind \notin {"empty", "not_found"}
     /\ last.result = "habit"
     /\ Has(last.data, "is_active") /\ last.data["is_active"]
     /\ ~last.habit_before_update.is_active
     /\ last.habit_before_update.job_id = NoJob)
    => /\ Len(last.calls) = 1
       /\ last.calls[1].call = "enqueue"
       /\ last.calls[1].habit_id = last.habit_id
       /\ last.calls[1].job_try = 1
       /\ last.calls[1].defer =
              IF Has(last.data, "timer_to_notify_in_seconds")
              THEN last.data["timer_to_notify_in_seconds"]
              ELSE last.habit_before_update.timer_to_notify_in_seconds
       /\ Stored(last.habit_id)
       /\ habits[last.habit_id].is_active
       /\ habits[last.habit_id].timer_to_notify_in_seconds = last.calls[1].defer
       /\ habits[last.habit_id].job_id = last.calls[1].id

\* C5 witness: a reactivation that changed the timer in the same update.
C5_Witness ==
    /\ last.op = "update"
    /\ last.kind = "reactivation"
    /\ last.result = "habit"
    /\ last.habit_before_update.job_id = NoJob
    /\ Has(last.data, "timer_to_notify_in_seconds")
    /\ last.data["timer_to_notify_in_seconds"] #
           last.habit_before_update.timer_to_notify_in_seconds
    /\ Len(last.calls) = 1

\* C6 (as stated): an update that sets is_active = false on a stored active
\* habit with job_id J issues one cancel for J and leaves is_active = false and
\* job_id empty, whether the cancel succeeds or raises.
C6_DeactivationClears ==
    (/\ last.op = "update"
     /\ last.kind \notin {"empty", "not_found"}
     /\ last.result = "habit"
     /\ Has(last.data, "is_active") /\ ~last.data["is_active"]
     /\ last.habit_before_update.is_active
     /\ last.habit_before_update.job_id # NoJob)
    => /\ Len(last.calls) = 1
       /\ last.calls[1].call = "cancel"
       /\ last.calls[1].id = last.habit_before_update.job_id
       /\ Stored(last.habit_id)
       /\ ~habits[last.habit_id].is_active
       /\ habits[last.habit_id].job_id = NoJob

C8_EnqueueFailureAbortsCreate ==
    [][(last'.op = "create" /\ last'.failed = "enqueue")
       => /\ last'.row.is_active
          /\ last'.result = "raised"
          /\ last'.calls = <<>>
          /\ habits' = habits
          /\ last'.habit_id \notin DOMAIN habits'
          /\ \A j \in queue' : j.habit_id # last'.habit_id
          /\ \A i \in DOMAIN running' : running'[i].job.habit_id # last'.habit_id
          /\ queue' = queue]_vars

\* C8 witness: the create of an active habit ended at its failed enqueue.
C8_Witness ==
    /\ last.op = "create"
    /\ last.failed = "enqueue"
    /\ last.row.is_active
    /\ last.result = "raised"
    /\ ~Stored(last.habit_id)

\* C9: a firing that delivered its message and whose enqueue and write went
\* through has enqueued exactly one job, with job_try 1 and defer equal to the
\* timer it loaded, whatever its own job_try, and the row's job_id is the new
\* job's id.
C9_SuccessReschedules ==
    (last.op = "handler" /\ last.delivered = "True" /\ last.path = "rescheduled")
    => /\ Len(last.calls) = 1
       /\ last.calls[1].call = "enqueue"
       /\ last.calls[1].habit_id = last.habit_id
       /\ last.calls[1].job_try = 1
       /\ last.calls[1].defer = last.timer
       /\ Stored(last.habit_id) => habits[last.habit_id].job_id = last.calls[1].id

\* C9 witness: a retry job (job_try > 1) delivered and rescheduled the habit.
C9_Witness ==
    /\ last.op = "handler"
    /\ last.delivered = "True"
    /\ last.path = "rescheduled"
    /\ last.job_try > 1
    /\ Stored(last.habit_id)
    /\ habits[last.habit_id].job_id = last.calls[1].id

\* C10 (as stated): in a cycle whose deliveries fail at job_try 1 and 2 and
\* succeed at job_try 3, the failing firings enqueue only their retry job
\* (defer 15, job_try 2 and 3) and the succeeding firing enqueues only the
\* next regular job (defer = timer, job_try 1).
C10_RetryThenRegular ==
    (last.op = "handler" /\ last.err = "no" /\ last.delivered # "none")
    => /\ (last.delivered = "False" /\ last.job_try \in {1, 2})
          => last.calls = <<EnqueueCall(last.calls[1].id, last.habit_id,
                                RETRY_DELAY_SECONDS, last.job_try + 1)>>
       /\ (last.delivered = "True" /\ last.job_try = MAX_TRIES)
          => last.calls = <<EnqueueCall(last.calls[1].id, last.habit_id,
                                last.timer, 1)>>

\* C11: a delete that finds the caller's habit with job_id J issues exactly one
\* cancel call, for J, while the row is still stored, and none when job_id is
\* empty; the step that removes the row makes no further queue call.
C11_DeleteCancelsBeforeRemoval ==
    [][/\ \A c \in Clients :
            (api[c] = Idle /\ api'[c].pc = "execute" /\ api'[c].op = "delete")
            => LET h == api'[c].habit_id
                   J == habits[h].job_id
               IN
               /\ h \in DOMAIN habits'
               /\ IF J # NoJob
                  THEN /\ Len(api'[c].calls) = 1
                       /\ api'[c].calls[1].call = "cancel"
                       /\ api'[c].calls[1].id = J
                  ELSE api'[c].calls = <<>>
       /\ \A h \in DOMAIN habits :
            h \notin DOMAIN habits'
            => \E c \in Clients :
                  /\ api[c].pc = "execute" /\ api[c].op = "delete"
                  /\ api[c].habit_id = h
                  /\ api'[c] = Idle
                  /\ last'.op = "delete"
                  /\ last'.result = "True"
                  /\ last'.calls = api[c].calls
                  /\ queue' = queue]_vars

\* C11 witness: a habit with a recorded job was deleted after its one cancel call.
C11_Witness ==
    /\ last.op = "delete"
    /\ last.result = "True"
    /\ Len(last.calls) = 1
    /\ last.calls[1].call = "cancel"
    /\ ~Stored(last.habit_id)

\* C12: an update or delete whose (habit id, owner id) pair matches no stored
\* row returns None (update) or False (delete) at once, makes no queue call and
\* changes no row and no job.
C12_NotFoundHasNoEffect ==
    [][\A c \in Clients :
        LET started == api[c] = Idle /\ api'[c].pc = "execute"
            returned == /\ \A d \in Clients : api[d] = Idle
                        /\ api' = api
                        /\ last'.op \in {"update", "delete"}
            u == IF started THEN api'[c].user_id ELSE last'.user_id
            h == IF started THEN api'[c].habit_id ELSE last'.habit_id
            nomatch == ~(h \in DOMAIN habits /\ habits[h].user_id = u)
        IN
        ((started \/ returned) /\ nomatch)
        => /\ returned
           /\ last'.result = IF last'.op = "update" THEN "None" ELSE "False"
           /\ last'.calls = <<>>
           /\ habits' = habits
           /\ queue' = queue
           /\ running' = running]_vars

\* C12 witness: an update on another owner's stored habit returned None.
C12_Witness ==
    /\ last.op = "update"
    /\ last.kind = "not_found"
    /\ last.result = "None"
    /\ Stored(last.habit_id)
    /\ habits[last.habit_id].user_id # last.user_id

\* C13 (as stated): with collaborators that never fail and fair firing, a habit
\* that stays stored, active and linked gets a reminder delivered again and
\* again.
C13_DeliveredInfinitelyOften ==
    \A h \in HabitIds :
        <>[](/\ Stored(h)
             /\ habits[h].is_active
             /\ telegram_chat_id[habits[h].user_id] # 0)
        => []<>(/\ last.op = "handler"
                /\ last.habit_id = h
                /\ last.delivered = "True")

\* C14: an update that returns the habit and leaves is_active as it was (active
\* or inactive) has made no enqueue and no cancel call; its commit changes no
\* job and not the row's job_id, and stores the timer the request carries.
C14_PlainUpdateTouchesNoJob ==
    [][\A c \in Clients :
        (/\ api[c].pc = "commit" /\ api[c].op = "update"
         /\ api'[c] = Idle
         /\ last'.result = "habit"
         /\ api[c].was_active_before = habits'[api[c].habit_id].is_active)
        => LET h == api[c].habit_id
               data == api[c].data
           IN
           /\ last'.calls = <<>>
           /\ queue' = queue
           /\ running' = running
           /\ habits'[h].job_id = habits[h].job_id
           /\ habits'[h].timer_to_notify_in_seconds =
                  IF Has(data, "timer_to_notify_in_seconds")
                  THEN data["timer_to_notify_in_seconds"]
                  ELSE habits[h].timer_to_notify_in_seconds]_vars

\* C14 witness: the timer of an active habit with a recorded job was changed.
C14_Witness ==
    /\ last.op = "update"
    /\ last.kind = "plain"
    /\ last.result = "habit"
    /\ last.calls = <<>>
    /\ last.habit_before_update.is_active
    /\ last.habit_before_update.job_id # NoJob
    /\ habits[last.habit_id].is_active
    /\ habits[last.habit_id].job_id = last.habit_before_update.job_id
    /\ habits[last.habit_id].timer_to_notify_in_seconds #
           last.habit_before_update.timer_to_notify_in_seconds
    /\ \E j \in queue : j.id = habits[last.habit_id].job_id

\* C15 (as stated): send_message returns a boolean for every outcome of the
\* bot, true only on success, and a firing whose send_message returned false
\* takes the failure path instead of rescheduling as after a delivery.
C15_FalseIsDispatchFailure ==
    /\ \A outcome \in BotOutcomes :
          /\ send_message(outcome) \in BOOLEAN
          /\ send_message(outcome) <=> outcome = "ok"
    /\ (last.op = "handler" /\ last.delivered = "False")
       => last.path \in {"retry", "gave_up", "raised"}

\* C16 (as stated): one invocation of the handler enqueues at most one job on
\* every path: none on the guard exit and when giving up, one otherwise, also
\* when the write after the enqueue of the next job raises.
C16_AtMostOneEnqueuePerFiring ==
    last.op = "handler"
    => /\ Len(last.calls) <= 1
       /\ last.path \in {"stopped", "gave_up"} => last.calls = <<>>

\* C17 (as stated): once no further repository call is issued, the firings
\* bring every habit back to at most one job, again and again.  Only the jobs
\* waiting in the queue are counted here, not the one that is executing.
C17_DuplicateJobsSelfCorrect ==
    \A h \in HabitIds :
        <>[](/\ \A c \in Clients : api[c] = Idle
             /\ last.op \notin {"create", "update", "delete"})
        => []<>(Cardinality({j \in queue : j.habit_id = h}) <= 1)

\* C18 (as stated): after a failed firing that enqueued its retry job, the
\* stored job_id of the active habit is the retry job's id (no repository call
\* being in progress).
C18_RetryJobIsRecorded ==
    (/\ last.op = "handler" /\ last.path = "retry"
     /\ \A c \in Clients : api[c] = Idle
     /\ Stored(last.habit_id)
     /\ habits[last.habit_id].is_active)
    => habits[last.habit_id].job_id = last.calls[Len(last.calls)].id

\* C19 (as stated): a firing with job_try >= MAX_TRIES that fails has enqueued
\* no job, and no job of the habit is left to fire.
C19_GiveUpEnqueuesNothing ==
    (last.op = "handler" /\ last.job_try >= MAX_TRIES /\ last.err # "no")
    => /\ last.path = "gave_up"
       /\ last.calls = <<>>
       /\ (\A c \in Clients : api[c] = Idle) => LiveJobsOf(last.habit_id) = {}

\* C20: a deactivating update whose cancel call raised, and whose commit went
\* through, returns the updated habit: is_active = false and the other fields
\* of the request are stored.
C20_CancelFailureDoesNotFailUpdate ==
    (/\ last.op = "update"
     /\ last.kind = "deactivation"
     /\ last.calls = <<CancelCall(last.habit_before_update.job_id, "raise")>>
     /\ last.failed # "commit")
    => /\ last.result = "habit"
       /\ Stored(last.habit_id)
       /\ ~habits[last.habit_id].is_active
       /\ Has(last.data, "timer_to_notify_in_seconds")
          => habits[last.habit_id].timer_to_notify_in_seconds =
                 last.data["timer_to_notify_in_seconds"]

\* C20 witness: a deactivation that also changed the timer returned the habit
\* although its cancel call raised.
C20_Witness ==
    /\ last.op = "update"
    /\ last.kind = "deactivation"
    /\ Len(last.calls) = 1
    /\ last.calls[1].outcome = "raise"
    /\ last.result = "habit"
    /\ ~habits[last.habit_id].is_active
    /\ Has(last.data, "timer_to_notify_in_seconds")
    /\ habits[last.habit_id].timer_to_notify_in_seconds #
           last.habit_before_update.timer_to_notify_in_seconds

\* C21: a delete returns at once only when no row matches (id, owner); a delete
\* that found the caller's habit and whose commit went through leaves the row
\* absent and returns True when its DELETE removed the row (False only when
\* another delete removed it first), whatever the outcome of its cancel call;
\* a job that fires for a habit that is no longer stored stops at the guard
\* and changes nothing.
C21_DeleteSurvivesCancelFailure ==
    [][/\ (api' = api /\ last' # last /\ last'.op = "delete")
          => /\ last'.result = "False"
             /\ ~(/\ last'.habit_id \in DOMAIN habits
                  /\ habits[last'.habit_id].user_id = last'.user_id)
       /\ \A c \in Clients :
            (/\ api[c].pc = "execute" /\ api[c].op = "delete"
             /\ api'[c] = Idle
             /\ last'.failed = "no")
            => /\ last'.calls = api[c].calls
               /\ api[c].habit_id \notin DOMAIN habits'
               /\ last'.result =
                     IF /\ api[c].habit_id \in DOMAIN habits
                        /\ habits[api[c].habit_id].user_id = api[c].user_id
                     THEN "True" ELSE "False"
       /\ \A j \in queue :
            (/\ j \notin queue'
             /\ j.habit_id \notin DOMAIN habits
             /\ last'.op = "handler" \/ j.id \in DOMAIN running'
             /\ ~(last'.op = "handler" /\ last'.err = "load"))
            => /\ last'.op = "handler"
               /\ last'.path = "stopped"
               /\ last'.delivered = "none"
               /\ last'.calls = <<>>
               /\ queue' = queue \ {j}
               /\ habits' = habits
               /\ running' = running]_vars

\* C21 witness: a delete returned True although its cancel call raised; the
\* row is gone and the job that was not cancelled is still queued.
C21_Witness ==
    /\ last.op = "delete"
    /\ last.result = "True"
    /\ Len(last.calls) = 1
    /\ last.calls[1].outcome = "raise"
    /\ ~Stored(last.habit_id)
    /\ \E j \in queue : j.habit_id = last.habit_id /\ j.id = last.calls[1].id

\* C22 (as stated): a create that returned None after an IntegrityError, at
\* flush or at commit, has stored no row and left no job for the habit.
C22_ConflictLeavesNothing ==
    (last.op = "create" /\ last.failed \in {"flush", "commit"} /\ last.result = "None")
    => /\ ~Stored(last.habit_id)
       /\ LiveJobsOf(last.habit_id) = {}

\* C23: once a habit is, and stays, deleted or inactive, the jobs that are
\* queued or executing for it run out and none comes back; and a job that
\* fires while the committed row is missing or inactive dispatches no message.
C23_JobsDrainAfterDeactivation ==
    /\ \A h \in HabitIds :
          <>[](~Stored(h) \/ ~habits[h].is_active)
          => <>[](LiveJobsOf(h) = {})
    /\ [][\A j \in queue :
            (/\ j \notin queue'
             /\ last'.op = "handler" \/ j.id \in DOMAIN running'
             /\ j.habit_id \notin DOMAIN habits \/ ~habits[j.habit_id].is_active)
            => /\ last'.op = "handler"
               /\ last'.delivered = "none"]_vars

\* C23 witness: the habit is stored and inactive, the job enqueued by a firing
\* that overlapped the deactivation (it wrote job_id after the update cleared
\* it) has fired and stopped, and no job of the habit is left.
C23_Witness ==
    /\ last.op = "handler"
    /\ last.path = "stopped"
    /\ Stored(last.habit_id)
    /\ ~habits[last.habit_id].is_active
    /\ habits[last.habit_id].job_id # NoJob
    /\ LiveJobsOf(last.habit_id) = {}
    /\ \A c \in Clients : api[c] = Idle

\* C24: an update has made its queue call before its commit and makes none
\* with it; the commit stores the job_id the update assigned after that call
\* (the new job's id on reactivation, None after a cancel that went through)
\* and otherwise leaves the job_id stored by the commit before it.  A firing
\* has enqueued the next job before its write, and the write stores that job's
\* id and nothing else.  The stored job_id changes at no other step, so it is
\* always the one of the latest of these commits.
C24_LastCommitterWins ==
    [][/\ \A c \in Clients :
            (/\ api[c].pc = "commit" /\ api[c].op = "update"
             /\ api'[c] = Idle
             /\ last'.result = "habit")
            => LET h == api[c].habit_id
                   calls == api[c].calls
               IN
               /\ queue' = queue
               /\ last'.calls = calls
               /\ habits'[h].job_id =
                     IF calls # <<>> /\ calls[1].call = "enqueue"
                     THEN calls[1].id
                     ELSE IF calls # <<>> /\ calls[1].call = "cancel"
                             /\ calls[1].outcome = "ok"
                     THEN NoJob
                     ELSE habits[h].job_id
       /\ \A id \in DOMAIN running :
            (/\ id \notin DOMAIN running'
             /\ last'.op = "handler"
             /\ last'.path = "rescheduled")
            => LET r == running[id]
                   h == r.job.habit_id
               IN
               /\ Len(r.calls) = 1
               /\ r.calls[1].call = "enqueue"
               /\ last'.calls = r.calls
               /\ queue' = queue
               /\ h \in DOMAIN habits
                  => habits' = [habits EXCEPT ![h].job_id = r.calls[1].id]
       /\ \A h \in DOMAIN habits \cap DOMAIN habits' :
            habits'[h].job_id # habits[h].job_id
            => \/ \E c \in Clients :
                    /\ api[c].pc = "commit" /\ api[c].op = "update"
                    /\ api[c].habit_id = h
                    /\ api'[c] = Idle
               \/ \E id \in DOMAIN running :
                    /\ id \notin DOMAIN running'
                    /\ running[id].job.habit_id = h]_vars

\* C24 witness: a firing that had loaded the active habit committed its write
\* after the deactivation committed: the stored job_id is the firing's.
C24_Witness ==
    /\ last.op = "handler"
    /\ last.path = "rescheduled"
    /\ Stored(last.habit_id)
    /\ ~habits[last.habit_id].is_active
    /\ habits[last.habit_id].job_id = last.calls[1].id

C26_OneDeliveryPerCycle ==
    /\ last.op = "handler" => last.delivered_in_cycle <= 1
    /\ \A i \in DOMAIN running : Delivered(running[i]) <= 1

\* C27: with several habits stored, a step changes the row of a habit, or the
\* jobs queued for it, only when the step belongs to a create, update, delete
\* or firing for that very habit; every other habit's row and queued jobs are
\* the same after the step.
C27_OtherHabitsUnchanged ==
    [][\A h \in FrameHabitIds :
        LET rowChanged ==
                \/ (h \in DOMAIN habits) # (h \in DOMAIN habits')
                \/ /\ h \in DOMAIN habits
                   /\ h \in DOMAIN habits'
                   /\ habits'[h] # habits[h]
            jobsChanged ==
                {j \in queue : j.habit_id = h} # {j \in queue' : j.habit_id = h}
            subject ==
                \/ /\ last'.op \in {"create", "update", "delete", "handler"}
                   /\ last'.habit_id = h
                \/ \E c \in Clients :
                      /\ api'[c] # api[c]
                      /\ api'[c].pc # "idle"
                      /\ api'[c].habit_id = h
                \/ \E id \in DOMAIN running' \ DOMAIN running :
                      running'[id].job.habit_id = h
        IN
        (rowChanged \/ jobsChanged) => subject]_vars

\* C27 witness: one habit was deactivated and its job cancelled while another
\* habit is stored active with its recorded job waiting in the queue.
C27_Witness ==
    /\ last.op = "update"
    /\ last.kind = "deactivation"
    /\ last.result = "habit"
    /\ \E g \in DOMAIN habits :
          /\ g # last.habit_id
          /\ habits[g].is_active
          /\ \E j \in queue : j.habit_id = g /\ j.id = habits[g].job_id

\* C28: an update whose request sets no field returns at once: it changes no
\* row and no job, starts no transaction, makes no queue call, and returns the
\* habit when a row matches the caller's (habit id, owner id), else None.
C28_EmptyUpdateIsARead ==
    [][(last'.op = "update" /\ last'.kind = "empty")
       => /\ habits' = habits
          /\ queue' = queue
          /\ running' = running
          /\ api' = api
          /\ last'.calls = <<>>
          /\ last'.result =
                IF /\ last'.habit_id \in DOMAIN habits
                   /\ habits[last'.habit_id].user_id = last'.user_id
                THEN "habit" ELSE "None"]_vars

\* C28 witness: an empty update on the caller's active habit returned the
\* habit; its recorded job is still queued.
C28_Witness ==
    /\ last.op = "update"
    /\ last.kind = "empty"
    /\ last.result = "habit"
    /\ Stored(last.habit_id)
    /\ habits[last.habit_id].user_id = last.user_id
    /\ habits[last.habit_id].is_active
    /\ \E j \in queue : j.id = habits[last.habit_id].job_id

\* C29: the global queue handle is assigned once, by the startup of the
\* lifespan, and closed once, by its shutdown, when no repository call is in
\* progress; every step of a create, update or delete runs while the handle is
\* the open pool, and a call starts only while the process serves.
C29_HandleOpenDuringRequests ==
    [][/\ (\E c \in Clients : api'[c] # api[c])
          => /\ arq_redis = "pool"
             /\ arq_redis' = "pool"
       /\ (last' # last /\ last'.op \in {"create", "update", "delete"})
          => /\ arq_redis = "pool"
             /\ arq_redis' = "pool"
       /\ (\E c \in Clients : api[c] = Idle /\ api'[c] # Idle)
          => app = "serving"
       /\ arq_redis' # arq_redis
          => \/ /\ arq_redis = "None" /\ arq_redis' = "pool"
                /\ app = "startup" /\ app' = "serving"
             \/ /\ arq_redis = "pool" /\ arq_redis' = "closed"
                /\ app = "serving" /\ app' = "stopped"
                /\ \A c \in Clients : api[c] = Idle
       /\ app' # app => app' # "startup"]_vars

\* C29 witness: the process was started, served a create that enqueued the
\* habit's first job, and was shut down: the handle is closed.
C29_Witness ==
    /\ app = "stopped"
    /\ arq_redis = "closed"
    /\ last.op = "create"
    /\ last.result = "habit"
    /\ Len(last.calls) = 1
====
